---- MODULE Spec2Model ----
(***************************************************************************)
(* Model of FastAPI_EDX.py: the Data_File class, the three POST handlers   *)
(* (process_txt_data, validation_of_incoming_txt_file,                     *)
(* process_txt_data_table), the temporary-file directory they share and    *)
(* the log file.                                                           *)
(*                                                                         *)
(* Text (paths, request bodies) is a sequence of one-character strings, so *)
(* that `in` and endswith are computed on the characters.  Python values   *)
(* of several types are records with a "kind"/"type" field.                *)
(***************************************************************************)
EXTENDS Naturals, Sequences, FiniteSets

\* ------------------------------------------------------------------ bounds
\* Number of validation requests in flight over the life of the model.
MaxRequests == 2
\* Number of Data_File.df calls.
MaxDfCalls == 2

Req == 1..MaxRequests

\* ------------------------------------------------------------ python text
\* s.endswith(suffix)
EndsWith(s, suffix) ==
    /\ Len(suffix) <= Len(s)
    /\ SubSeq(s, Len(s) - Len(suffix) + 1, Len(s)) = suffix

\* sub in s
Contains(sub, s) ==
    \E i \in 1..(Len(s) + 1) :
        /\ i + Len(sub) - 1 <= Len(s)
        /\ SubSeq(s, i, i + Len(sub) - 1) = sub

\* The literal "invalid" of file_validation.
Marker == <<"i", "n", "v", "a", "l", "i", "d">>
\* The literal '.txt' of df and of NamedTemporaryFile(suffix='.txt').
TxtSuffix == <<".", "t", "x", "t">>

NoPath == <<>>

\* --------------------------------------------------------------- inputs
\* Request bodies: the empty body, and a one-column table whose header
\* spells the marker.
Bodies ==
    { <<>>,
      <<"i", "n", "v", "a", "l", "i", "d", "\n", "1", "\n">> }

\* tempfile draws 8 characters from [a-z0-9_]; these are the draws the model
\* considers.  The second spells the marker.
RandNames ==
    { <<"a", "b", "c", "d", "e", "f", "g", "h">>,
      <<"i", "n", "v", "a", "l", "i", "d", "0">> }

\* tempfile.gettempdir() + "/" + "tmp" + <8 random characters> + suffix
TempPath(rnd) == <<"/", "t", "m", "p", "/", "t", "m", "p">> \o rnd \o TxtSuffix
TempPaths == { TempPath(rnd) : rnd \in RandNames }

\* ----------------------------------------------------- exceptions, values
Exc(type, text, path) == [type |-> type, text |-> text, path |-> path]
NoExc == Exc("none", "", NoPath)

\* name 'null' is evaluated at lines 145, 146 and 155
NameErrorNull == Exc("NameError", "name 'null' is not defined", NoPath)
\* raise Exception(...) at line 149
ValidationException ==
    Exc("Exception", "System.Exception column 0: MA (unknown column name)", NoPath)
\* os.unlink(file_path) at line 158 with file_path never assigned
UnboundFilePath ==
    Exc("UnboundLocalError", "local variable 'file_path' referenced before assignment", NoPath)
\* failures of the operating system
WriteError == Exc("OSError", "[Errno 28] No space left on device", NoPath)
CloseError == Exc("OSError", "[Errno 5] Input/output error", NoPath)
CreateError == Exc("OSError", "[Errno 28] No space left on device", NoPath)
NoFreeName == Exc("FileExistsError", "No usable temporary file name found", NoPath)
ClientDisconnect == Exc("ClientDisconnect", "", NoPath)
UnlinkDenied(p) == Exc("PermissionError", "[Errno 13] Permission denied", p)
UnlinkMissing(p) == Exc("FileNotFoundError", "[Errno 2] No such file or directory", p)

\* str(e): the message, with the file name the OS error carries
Str(e) == [text |-> e.text, path |-> e.path]

NoResult == [kind |-> "none"]
Returned(body) == [kind |-> "return", body |-> body]
Raised(e) == [kind |-> "raise", exc |-> e]

\* The value the response bodies mean by `null`.
Null == "null"

\* Names bound at module level (lines 4-38, 61, 106, 127, 178).
ModuleNames ==
    { "FastAPI", "Request", "HTTPException", "List", "Optional", "os", "tempfile",
      "dt", "logging", "uvicorn", "pd", "log_directory", "today", "file_name",
      "app", "Data_File", "template_data", "process_txt_data",
      "validation_of_incoming_txt_file", "process_txt_data_table" }
\* Python builtins the handlers could name.
Builtins == { "None", "True", "False", "Exception", "ValueError", "str" }

\* Evaluation of a global name: its value, or NameError.
IsDefined(name) == name \in ModuleNames \cup Builtins

\* The dict display at lines 143-147 and 152-156: building it evaluates the
\* name `null`.
ValidationBody(code, message) ==
    IF IsDefined("null")
    THEN Returned([Code |-> code, Message |-> message, Warning |-> Null])
    ELSE Raised(NameErrorNull)

FixedMessage == "System.Exception column 0: MA (unknown column name)"

\* ------------------------------------------------------------- Data_File
\* Data_File.file_validation
file_validation(file_path) ==
    IF Contains(Marker, file_path) THEN FALSE ELSE TRUE

\* ------------------------------------------------------------------ state
VARIABLES
    sched,              \* "loop": one asyncio event loop; "workers": handler
                        \* steps of different requests interleave freely
    fs,                 \* the file system: path -> content
    log,                \* the log file: sequence of entries
    pc,                 \* position of each validation request in its handler
    byte_data,          \* local byte_data
    temp_name,          \* temp_file.name
    file_path,          \* local file_path (NoPath: unbound)
    validation_status,  \* local validation_status (assigned by line 141)
    caught,             \* the exception `e` bound by the except clause
    pending,            \* outcome carried into the finally block
    result,             \* what left the handler
    response,           \* the last call of a fixed-payload endpoint
    df_calls,           \* number of Data_File.df calls so far
    df_last             \* the last Data_File.df call

handlerVars == <<fs, pc, byte_data, temp_name, file_path, validation_status,
                 caught, pending, result>>
vars == <<sched, fs, log, pc, byte_data, temp_name, file_path,
          validation_status, caught, pending, result, response, df_calls,
          df_last>>

\* Positions between the first and the last synchronous statement.
MidPcs == { "write", "close", "validate", "branch", "log", "ret500", "finally" }

\* May request r run its next synchronous statement?  On one event loop a
\* handler runs from one await to the next without interruption.
Scheduled(r) ==
    \/ sched = "workers"
    \/ \A q \in Req \ {r} : pc[q] \notin MidPcs

LoopIdle == sched = "workers" \/ \A q \in Req : pc[q] \notin MidPcs

LogValidation(e) == [text |-> "Validation failed", path |-> NoPath, cause |-> Str(e)]

InitCommon ==
    /\ fs = << >>
    /\ log = << >>
    /\ pc = [r \in Req |-> "start"]
    /\ byte_data = [r \in Req |-> << >>]
    /\ temp_name = [r \in Req |-> NoPath]
    /\ file_path = [r \in Req |-> NoPath]
    /\ validation_status = [r \in Req |-> FALSE]
    /\ caught = [r \in Req |-> NoExc]
    /\ pending = [r \in Req |-> NoResult]
    /\ result = [r \in Req |-> NoResult]
    /\ response = [endpoint |-> "none", request |-> << >>, value |-> NoResult]
    /\ df_calls = 0
    /\ df_last = [called |-> FALSE, path |-> NoPath, read |-> FALSE,
                  result |-> NoResult]

Init == sched = "loop" /\ InitCommon

\* ------------------------------------- validation_of_incoming_txt_file
\* line 129: byte_data = await request.body()
AwaitBody(r) ==
    /\ pc[r] = "start"
    /\ \/ \E b \in Bodies :
            /\ byte_data' = [byte_data EXCEPT ![r] = b]
            /\ pc' = [pc EXCEPT ![r] = "create"]
            /\ UNCHANGED result
       \/ /\ result' = [result EXCEPT ![r] = Raised(ClientDisconnect)]
          /\ pc' = [pc EXCEPT ![r] = "done"]
          /\ UNCHANGED byte_data
    /\ UNCHANGED <<response, df_calls, df_last>>
    /\ UNCHANGED <<sched, fs, log, temp_name, file_path, validation_status,
                   caught, pending>>

\* A name choice that does not look at the directory.
FreeNames_NoExcl(files) == TempPaths

\* Names tempfile may return: it opens with O_EXCL and draws again when the
\* name exists.
FreeNames(files) == { p \in TempPaths : p \notin DOMAIN files }

\* line 131: temp_file = tempfile.NamedTemporaryFile(delete=False, suffix='.txt')
CreateTemp(r) ==
    /\ pc[r] = "create"
    /\ Scheduled(r)
    /\ \/ \E p \in FreeNames(fs) :
            /\ fs' = [q \in DOMAIN fs \cup {p} |-> IF q = p THEN << >> ELSE fs[q]]
            /\ temp_name' = [temp_name EXCEPT ![r] = p]
            /\ pc' = [pc EXCEPT ![r] = "write"]
            /\ UNCHANGED result
       \/ /\ result' = [result EXCEPT ![r] =
                           Raised(IF FreeNames(fs) = {} THEN NoFreeName ELSE CreateError)]
          /\ pc' = [pc EXCEPT ![r] = "done"]
          /\ UNCHANGED <<fs, temp_name>>
    /\ UNCHANGED <<response, df_calls, df_last>>
    /\ UNCHANGED <<sched, log, byte_data, file_path, validation_status,
                   caught, pending>>

\* line 134: temp_file.write(byte_data)
WriteTemp(r) ==
    /\ pc[r] = "write"
    /\ Scheduled(r)
    /\ \/ /\ pc' = [pc EXCEPT ![r] = "close"]
          /\ UNCHANGED caught
       \/ /\ caught' = [caught EXCEPT ![r] = WriteError]
          /\ pc' = [pc EXCEPT ![r] = "log"]
    /\ UNCHANGED <<response, df_calls, df_last>>
    /\ UNCHANGED <<sched, fs, log, byte_data, temp_name, file_path,
                   validation_status, pending, result>>

\* lines 135-137: temp_file.close() flushes the buffered bytes to the file;
\* file_path = temp_file.name
CloseTemp(r) ==
    /\ pc[r] = "close"
    /\ Scheduled(r)
    /\ \/ /\ fs' = [fs EXCEPT ![temp_name[r]] = byte_data[r]]
          /\ file_path' = [file_path EXCEPT ![r] = temp_name[r]]
          /\ pc' = [pc EXCEPT ![r] = "validate"]
          /\ UNCHANGED caught
       \/ /\ caught' = [caught EXCEPT ![r] = CloseError]
          /\ pc' = [pc EXCEPT ![r] = "log"]
          /\ UNCHANGED <<fs, file_path>>
    /\ UNCHANGED <<response, df_calls, df_last>>
    /\ UNCHANGED <<sched, log, byte_data, temp_name, validation_status,
                   pending, result>>

\* A validation that looks for the marker in the stored bytes as well.
Validate_ReadsContent(r) ==
    /\ pc[r] = "validate"
    /\ Scheduled(r)
    /\ validation_status' =
           [validation_status EXCEPT ![r] =
               file_validation(file_path[r]) /\ file_validation(fs[file_path[r]])]
    /\ pc' = [pc EXCEPT ![r] = "branch"]
    /\ UNCHANGED <<response, df_calls, df_last>>
    /\ UNCHANGED <<sched, fs, log, byte_data, temp_name, file_path, caught,
                   pending, result>>

\* lines 140-141: new_file = Data_File(file_path);
\* validation_status = new_file.file_validation()
Validate(r) ==
    /\ pc[r] = "validate"
    /\ Scheduled(r)
    /\ validation_status' =
           [validation_status EXCEPT ![r] = file_validation(file_path[r])]
    /\ pc' = [pc EXCEPT ![r] = "branch"]
    /\ UNCHANGED <<response, df_calls, df_last>>
    /\ UNCHANGED <<sched, fs, log, byte_data, temp_name, file_path, caught,
                   pending, result>>

\* lines 142-149: return the Code 0 body, or raise the validation exception.
\* An exception raised here, building the body included, is caught at 150.
Branch(r) ==
    /\ pc[r] = "branch"
    /\ Scheduled(r)
    /\ IF validation_status[r] = TRUE
       THEN LET out == ValidationBody(0, Null) IN
            IF out.kind = "return"
            THEN /\ pending' = [pending EXCEPT ![r] = out]
                 /\ pc' = [pc EXCEPT ![r] = "finally"]
                 /\ UNCHANGED caught
            ELSE /\ caught' = [caught EXCEPT ![r] = out.exc]
                 /\ pc' = [pc EXCEPT ![r] = "log"]
                 /\ UNCHANGED pending
       ELSE /\ caught' = [caught EXCEPT ![r] = ValidationException]
            /\ pc' = [pc EXCEPT ![r] = "log"]
            /\ UNCHANGED pending
    /\ UNCHANGED <<response, df_calls, df_last>>
    /\ UNCHANGED <<sched, fs, log, byte_data, temp_name, file_path,
                   validation_status, result>>

\* An except clause that does not log.
LogFailure_NoLog(r) ==
    /\ pc[r] = "log"
    /\ Scheduled(r)
    /\ pc' = [pc EXCEPT ![r] = "ret500"]
    /\ UNCHANGED <<response, df_calls, df_last>>
    /\ UNCHANGED <<sched, fs, log, byte_data, temp_name, file_path,
                   validation_status, caught, pending, result>>

\* lines 150-151: except Exception as e: logging.error(f"Validation failed: {str(e)}")
LogFailure(r) ==
    /\ pc[r] = "log"
    /\ Scheduled(r)
    /\ log' = Append(log, LogValidation(caught[r]))
    /\ pc' = [pc EXCEPT ![r] = "ret500"]
    /\ UNCHANGED <<response, df_calls, df_last>>
    /\ UNCHANGED <<sched, fs, byte_data, temp_name, file_path,
                   validation_status, caught, pending, result>>

\* lines 152-156: return the Code 500 body; an exception raised while
\* building it leaves the except clause.
Return500(r) ==
    /\ pc[r] = "ret500"
    /\ Scheduled(r)
    /\ pending' = [pending EXCEPT ![r] = ValidationBody(500, FixedMessage)]
    /\ pc' = [pc EXCEPT ![r] = "finally"]
    /\ UNCHANGED <<response, df_calls, df_last>>
    /\ UNCHANGED <<sched, fs, log, byte_data, temp_name, file_path,
                   validation_status, caught, result>>

\* lines 157-158: finally: os.unlink(file_path).  An exception raised in the
\* finally block replaces the return value or the exception on its way out.
Finally(r) ==
    /\ pc[r] = "finally"
    /\ Scheduled(r)
    /\ pc' = [pc EXCEPT ![r] = "done"]
    /\ IF file_path[r] = NoPath
       THEN /\ result' = [result EXCEPT ![r] = Raised(UnboundFilePath)]
            /\ UNCHANGED fs
       ELSE IF file_path[r] \notin DOMAIN fs
       THEN /\ result' = [result EXCEPT ![r] = Raised(UnlinkMissing(file_path[r]))]
            /\ UNCHANGED fs
       ELSE \/ /\ fs' = [q \in DOMAIN fs \ {file_path[r]} |-> fs[q]]
               /\ result' = [result EXCEPT ![r] = pending[r]]
            \/ /\ result' = [result EXCEPT ![r] = Raised(UnlinkDenied(file_path[r]))]
               /\ UNCHANGED fs
    /\ UNCHANGED <<response, df_calls, df_last>>
    /\ UNCHANGED <<sched, log, byte_data, temp_name, file_path,
                   validation_status, caught, pending>>

\* ------------------------------------------------------- Data_File.df
\* Paths df is called with: the temporary files, a file of another type, a
\* name that ends in "txt" without the dot, and a .txt file that is absent.
DfPaths ==
    TempPaths \cup
    { <<"a", ".", "c", "s", "v">>,
      <<"a", "t", "x", "t">>,
      <<"b", ".", "t", "x", "t">> }

NotTxt == Exc("ValueError", "File is not a .txt file", NoPath)
NoSuchFile(p) == Exc("FileNotFoundError", "[Errno 2] No such file or directory", p)
EmptyData == Exc("EmptyDataError", "No columns to parse from file", NoPath)
ParserError == Exc("ParserError", "Error tokenizing data", NoPath)

Table(content) == [kind |-> "table", delimiter |-> "\t", of |-> content]

\* line 52: the outcomes of pd.read_csv(path, delimiter='\t').  Whether rows
\* of a file with content tokenize is pandas's decision: both outcomes occur.
read_csv(files, p) ==
    IF p \notin DOMAIN files THEN { Raised(NoSuchFile(p)) }
    ELSE IF files[p] = << >> THEN { Raised(EmptyData) }
    ELSE { Returned(Table(files[p])), Raised(ParserError) }

\* A suffix test that forgets the dot.
IsTxt_NoDot(p) == EndsWith(p, <<"t", "x", "t">>)

\* line 51: the suffix test of df
IsTxt(p) == EndsWith(p, TxtSuffix)

\* lines 50-54: the try block of df: whether read_csv was called, and what
\* came out
df_try(files, p) ==
    IF IsTxt(p)
    THEN { [read |-> TRUE, out |-> o] : o \in read_csv(files, p) }
    ELSE { [read |-> FALSE, out |-> Raised(NotTxt)] }

\* line 56: logging.error(f"Error reading file {self.file_path}: {str(e)}")
LogRead(p, e) == [text |-> "Error reading file", path |-> p, cause |-> Str(e)]

\* line 57: HTTPException(status_code=500, detail=f"Error reading file: {e}")
HTTPException(status_code, e) ==
    [type |-> "HTTPException", status_code |-> status_code,
     detail |-> [text |-> "Error reading file", cause |-> Str(e)]]

\* lines 55-57: the log after the except clause of df handled e
df_log(entries, p, e) == Append(entries, LogRead(p, e))

\* lines 49-57: Data_File(p).df()
Df(p) ==
    /\ LoopIdle
    /\ df_calls < MaxDfCalls
    /\ df_calls' = df_calls + 1
    /\ \E t \in df_try(fs, p) :
          IF t.out.kind = "return"
          THEN /\ df_last' = [called |-> TRUE, path |-> p, read |-> t.read,
                              result |-> t.out]
               /\ UNCHANGED log
          ELSE /\ log' = df_log(log, p, t.out.exc)
               /\ df_last' = [called |-> TRUE, path |-> p, read |-> t.read,
                              result |-> Raised(HTTPException(500, t.out.exc))]
    /\ UNCHANGED <<sched, response>>
    /\ UNCHANGED handlerVars

\* ------------------------------------------------ fixed-payload endpoints
Element(name, percent) ==
    [CompoundIndex |-> 0, ElementName |-> name, ValueAbsolute |-> "None",
     ValuePercent |-> percent]

\* lines 61-86
template_data ==
    [Compositions |->
        << [CompositionElements |->
                << Element("V", "31.299999237906547"),
                   Element("Mn", "2.700000047683716"),
                   Element("Co", "22.600000381469727"),
                   Element("Ni", "6"),
                   Element("Ho", "37.400001525878906") >>,
            DeletePreviousProperties |-> TRUE,
            Properties |->
                << [PropertyID |-> 0, Type |-> 2, Name |-> "Measurement Area",
                    Value |-> 1, ValueEpsilon |-> "None", SortCode |-> 10,
                    Row |-> "None", Comment |-> "None"] >>] >>]

\* lines 179-196
table_data ==
    [DataTable |->
        << [Spectrum |-> "Spektrum 1 {1}", InStats |-> "Yes",
            Xmm |-> "-44.6", Ymm |-> "-40.3", C |-> "80.36562",
            O |-> "17.7799", Si |-> "0.331076", V |-> "-0.3328189",
            Mn |-> "0.09434319", Co |-> "1.12593", Ni |-> "1.070188",
            Ho |-> "-0.4342265"] >>]

\* lines 106-107: the handler takes no argument
process_txt_data == template_data

\* A table handler that echoes what it was sent.
process_txt_data_table_Echo(request) == [data |-> [DataTable |-> <<request>>]]

\* lines 178-198
process_txt_data_table(request) == [data |-> table_data]

\* POST databasevaluesbody with body b
ProcessTxtData ==
    /\ LoopIdle
    /\ \E b \in Bodies :
          response' = [endpoint |-> "databasevaluesbody", request |-> b,
                       value |-> Returned(process_txt_data)]
    /\ UNCHANGED <<sched, log, df_calls, df_last>>
    /\ UNCHANGED handlerVars

\* POST /tablebody with body b
ProcessTxtDataTable ==
    /\ LoopIdle
    /\ \E b \in Bodies :
          response' = [endpoint |-> "/tablebody", request |-> b,
                       value |-> Returned(process_txt_data_table(b))]
    /\ UNCHANGED <<sched, log, df_calls, df_last>>
    /\ UNCHANGED handlerVars

\* --------------------------------------------------------- specifications
Handler(r) ==
    \/ AwaitBody(r)
    \/ CreateTemp(r)
    \/ WriteTemp(r)
    \/ CloseTemp(r)
    \/ Validate(r)
    \/ Branch(r)
    \/ LogFailure(r)
    \/ Return500(r)
    \/ Finally(r)

\* One process, one event loop (uvicorn.run at line 202): the three
\* endpoints.
Next ==
    \/ \E r \in Req : Handler(r)
    \/ ProcessTxtData
    \/ ProcessTxtDataTable

Spec == Init /\ [][Next]_vars

\* One validation request and calls of Data_File.df, which share the log
\* and the files the request leaves behind.
NextLog ==
    \/ Handler(1)
    \/ \E p \in DfPaths : Df(p)

SpecLog == Init /\ [][NextLog]_vars

\* Several worker processes on one temporary directory: the statements of
\* different requests interleave.
InitWorkers == sched = "workers" /\ InitCommon

NextWorkers == \E r \in Req : Handler(r)

SpecWorkers == InitWorkers /\ [][NextWorkers]_vars

\* ================================================================= claims
Code0Body == [Code |-> 0, Message |-> Null, Warning |-> Null]
Code500Body == [Code |-> 500, Message |-> FixedMessage, Warning |-> Null]

\* Request r finished after its bytes were stored and file_path was
\* recorded, and its temporary file was removed.
FinishedStored(r) ==
    /\ pc[r] = "done"
    /\ file_path[r] # NoPath
    /\ result[r] # Raised(UnlinkDenied(file_path[r]))

\* C1: every validation request whose temporary path lacks "invalid" gets a
\* pass verdict and the handler returns {Code: 0, Message: null, Warning: null}.
C1_PassReturnsCode0 ==
    \A r \in Req :
        (FinishedStored(r) /\ ~Contains(Marker, file_path[r]))
            => /\ validation_status[r] = TRUE
               /\ result[r] = Returned(Code0Body)

\* C2: every validation request whose temporary path contains "invalid"
\* ends normally, returning {Code: 500, Message: <fixed message>, Warning: null}.
C2_FailReturnsCode500 ==
    \A r \in Req :
        (FinishedStored(r) /\ Contains(Marker, file_path[r]))
            => /\ result[r].kind = "return"
               /\ result[r] = Returned(Code500Body)

\* C3: when a validation request finishes, whichever way it leaves the
\* handler, the temporary file it created is gone (a removal the operating
\* system refuses is left aside).
C3_TempFileGone ==
    [][\A r \in Req :
          ( /\ pc[r] # "done"
            /\ pc'[r] = "done"
            /\ temp_name[r] # NoPath
            /\ result'[r] # Raised(UnlinkDenied(file_path[r])) )
              => temp_name[r] \notin DOMAIN fs']_vars

\* C4: when writing or closing failed before file_path was recorded, the
\* finally block adds no error: what leaves the handler is what the except
\* clause produced.
C4_ReleaseGuarded ==
    \A r \in Req :
        ( /\ pc[r] = "done"
          /\ temp_name[r] # NoPath
          /\ file_path[r] = NoPath )
            => result[r] = pending[r]

\* C5: a failure to remove the temporary file is swallowed: what the handler
\* produced before the removal step is what leaves the handler.
C5_RemovalFailureSwallowed ==
    \A r \in Req :
        (pc[r] = "done" /\ file_path[r] # NoPath) => result[r] = pending[r]

\* The last df call failed with the status-500 error built from cause e.
DfFailedWith(e) == df_last.result = Raised(HTTPException(500, e))

\* The error df raised names the file df was called with.
DfErrorCarriesName ==
    /\ df_last.result.kind = "raise"
    /\ df_last.result.exc.detail.cause.path = df_last.path

\* The log holds an entry of df for this path and this cause.
DfLogged(p, cause) ==
    \E i \in 1..Len(log) :
        /\ log[i].text = "Error reading file"
        /\ log[i].path = p
        /\ log[i].cause = cause

\* C6 as claimed: df parses exactly the paths ending in ".txt", and for any
\* other path fails with a status-500 error that carries the file name.
C6_ErrorCarriesName ==
    df_last.called =>
        /\ df_last.read = EndsWith(df_last.path, TxtSuffix)
        /\ ~EndsWith(df_last.path, TxtSuffix) =>
              /\ df_last.result.kind = "raise"
              /\ df_last.result.exc.status_code = 500
              /\ DfErrorCarriesName

\* C6 (amended): df attempts the tab-delimited parse exactly for the paths
\* ending in ".txt"; for any other path it returns no table and raises the
\* status-500 error whose detail is the fixed text "File is not a .txt file",
\* without the file name; the file name is in the log entry written before.
C6_ErrorFixedText ==
    df_last.called =>
        /\ df_last.read = EndsWith(df_last.path, TxtSuffix)
        /\ ~EndsWith(df_last.path, TxtSuffix) =>
              /\ DfFailedWith(NotTxt)
              /\ df_last.result.exc.detail.cause.path = NoPath
              /\ DfLogged(df_last.path, Str(NotTxt))

C6_Witness ==
    /\ df_last.called
    /\ df_last.path = <<"a", "t", "x", "t">>
    /\ DfFailedWith(NotTxt)
    /\ df_calls = 2
    /\ \E i \in 1..Len(log) : log[i].path \in TempPaths

\* The log holds the entry of the validation handler for exception e.
ValidationLogged(e) == \E i \in 1..Len(log) : log[i] = LogValidation(e)

C8_FixedPayload ==
    /\ response.endpoint = "databasevaluesbody" =>
          response.value = Returned(template_data)
    /\ response.endpoint = "/tablebody" =>
          response.value = Returned([data |-> table_data])

C8_Witness ==
    /\ response.endpoint = "/tablebody"
    /\ response.request # << >>
    /\ \E r \in Req : pc[r] = "done" /\ file_path[r] # NoPath

\* Request r holds a temporary file: created and not yet finished.
Live(r) == pc[r] \in MidPcs

\* C9: no two live validation requests hold the same temporary file path,
\* and no step removes the file of a request that is live after the step.
C9_NoCollision ==
    /\ [](\A r1, r2 \in Req :
            (r1 # r2 /\ Live(r1) /\ Live(r2)) => temp_name[r1] # temp_name[r2])
    /\ [][\A r \in Req :
            (Live(r) /\ pc'[r] \in MidPcs /\ temp_name[r] \in DOMAIN fs)
                => temp_name[r] \in DOMAIN fs']_vars

C9_Witness ==
    /\ pc[1] = "done"
    /\ file_path[1] # NoPath
    /\ file_path[1] \notin DOMAIN fs
    /\ Live(2)
    /\ pc[2] = "validate"
    /\ temp_name[2] \in DOMAIN fs

\* The removal step of request r was refused.
ReleaseFailed(r) == result[r] = Raised(UnlinkDenied(file_path[r]))

\* C10: two finished validation requests whose bytes were stored under the
\* same temporary path have the same verdict and the same outcome, whatever
\* their bodies (the outcome that leaves the handler is compared when the
\* removal step behaved alike).
C10_BodyIndependent ==
    \A r1, r2 \in Req :
        ( /\ pc[r1] = "done"
          /\ pc[r2] = "done"
          /\ file_path[r1] # NoPath
          /\ file_path[r1] = file_path[r2] )
            => /\ validation_status[r1] = validation_status[r2]
               /\ caught[r1] = caught[r2]
               /\ pending[r1] = pending[r2]
               /\ (ReleaseFailed(r1) <=> ReleaseFailed(r2)) => result[r1] = result[r2]

C10_Witness ==
    /\ pc[1] = "done"
    /\ pc[2] = "done"
    /\ file_path[1] # NoPath
    /\ file_path[1] = file_path[2]
    /\ byte_data[1] # byte_data[2]
    /\ ~ReleaseFailed(1)
    /\ ~ReleaseFailed(2)

====
